---- MODULE Spec2Model ----
(***************************************************************************)
(* lp2gh.py: moves one Launchpad bug to a GitHub issue.                     *)
(*                                                                         *)
(* The model follows main() statement by statement.  The two trackers are   *)
(* the environment: lp_remote is the bug as Launchpad stores it, gh_issues  *)
(* the issues GitHub stores.  Every remote call either succeeds or raises.  *)
(* The script may be invoked again once a run has ended; the trackers keep  *)
(* their state from one invocation to the next, the process state does not. *)
(* Text is a sequence of one-character strings.  The timestamps the script  *)
(* puts in its comments (datetime.now()) are left out of the comment        *)
(* records.                                                                *)
(***************************************************************************)
EXTENDS Integers, Sequences, FiniteSets, TLC

VARIABLES
    pc,                       \* position of the process in main()
    runs,                     \* number of invocations so far
    before,                   \* history: what the trackers held when this invocation began
    argv,                     \* the command line of this invocation
    args,                     \* the argparse namespace (main rewrites two fields)
    global_commit_changes,    \* module global, line 81
    global_github_repo_name,  \* module global, line 82
    gh_user_details,          \* main's local: <<>> while unbound, else <<token, account>>
    gh,                       \* the GitHub client: the token it was built from
    lp_bug,                   \* main's handle on the Launchpad bug (local copy)
    proceed,                  \* the line read at the confirmation prompt
    gh_issue,                 \* gh_create_issue's local (line 122)
    main_gh_issue,            \* main's local gh_issue (line 276)
    lp_remote,                \* the bug as stored by Launchpad
    gh_issues,                \* the issues stored by GitHub
    calls,                    \* calls made by this invocation, per callee
    log,                      \* messages printed by this invocation
    exc                       \* the exception that ended this invocation, if any

vars == <<pc, runs, before, argv, args, global_commit_changes, global_github_repo_name,
          gh_user_details, gh, lp_bug, proceed, gh_issue, main_gh_issue,
          lp_remote, gh_issues, calls, log, exc>>

-----------------------------------------------------------------------------
(* Bounds *)

MaxRuns == 2

-----------------------------------------------------------------------------
(* Program constants *)

RELOC_TAG == "relocated-to-github"
GH_TRIAGE_LABEL == "state/untriaged"
GH_IMPORT_LABEL == "imported-from-lp"
GH_DEFAULT_REPO == "sinanawad/utils"

\* Python's None for an issue reference; issues are referred to by number >= 1.
None == 0
\* main's gh_issue before line 276 has assigned it.
Unbound == 0 - 1

-----------------------------------------------------------------------------
(* Input domains *)

\* "Crash on save", "Steps..." and two more texts.
TitleCrash == <<"C","r","a","s","h"," ","o","n"," ","s","a","v","e">>
DescSteps == <<"S","t","e","p","s",".",".",".">>

Bugs ==
    { [id |-> 123, title |-> TitleCrash, description |-> DescSteps,
       owner |-> "carol", importance |-> "High"],
      [id |-> 7, title |-> <<>>, description |-> <<"*","x","*">>,
       owner |-> "dave", importance |-> "Undecided"],
      [id |-> 2051000, title |-> <<"a"," ","b">>, description |-> <<>>,
       owner |-> "carol", importance |-> "Low"] }

InitialTags == { <<>>, <<"papercut">>, <<"papercut", RELOC_TAG>> }

\* Ids no bug has.
UnknownBugIds == {999}

Tokens == {"None", "ghp_cmdline"}
Assignees == {"None", "alice"}
Repos == {GH_DEFAULT_REPO}

\* What `gh auth status --show-token` can yield: a failure, or a token and
\* the account name.  "None" is a valid account name.
CliAccounts == {"bob", "None"}
CliToken == "gho_cli"

\* Lines the operator may type.
InputLines == { <<"y">>, <<"Y">>, <<"n">>, <<>>, <<"y","e","s">>,
                <<"Y","E","S">>, <<" ","y">> }

APIs == {"gh_cli", "lp_login", "input", "get_repo", "create_issue",
         "create_comment", "add_to_labels", "edit", "newMessage", "lp_save",
         "gh_create_issue", "lp_update_bug"}

\* The calls that change a tracker.
MutatingAPIs == {"create_issue", "create_comment", "add_to_labels", "edit",
                 "newMessage", "lp_save"}

Terminal == {"Done", "Exited", "Crashed"}

-----------------------------------------------------------------------------
(* Pure helpers *)

Range(s) == { s[i] : i \in 1..Len(s) }

Digit(d) ==
    CASE d = 0 -> "0" [] d = 1 -> "1" [] d = 2 -> "2" [] d = 3 -> "3"
      [] d = 4 -> "4" [] d = 5 -> "5" [] d = 6 -> "6" [] d = 7 -> "7"
      [] d = 8 -> "8" [] d = 9 -> "9"

\* str(n) for n >= 0
RECURSIVE str(_)
str(n) == IF n < 10 THEN <<Digit(n)>> ELSE str(n \div 10) \o <<Digit(n % 10)>>

LowerChar(c) ==
    CASE c = "Y" -> "y" [] c = "E" -> "e" [] c = "S" -> "s" [] c = "N" -> "n"
      [] OTHER -> c

\* str.lower()
lower(s) == [i \in 1..Len(s) |-> LowerChar(s[i])]

\* Variant: the separator between the id and the title is forgotten.
IssueTitle_nospace(bug) == <<"L", "P", ":">> \o str(bug.id) \o bug.title

\* line 128: the title of the new issue
IssueTitle(bug) == <<"L", "P", ":">> \o str(bug.id) \o <<" ">> \o bug.title

\* line 130: the body of the new issue
IssueBody(bug) == bug.description

\* Variant: the dry-run flag is ignored.
Committing_always == TRUE

\* lines 129, 135, 140, 145, 167: the dry-run gate
Committing == global_commit_changes

\* line 234
AssigneeMissing(a) == ~a.do_not_assign /\ a.github_assignee = "None"

\* Variant: only the first tag is looked at.
AlreadyRelocated_first(tags) == Len(tags) > 0 /\ tags[1] = RELOC_TAG

\* line 257
AlreadyRelocated(tags) == RELOC_TAG \in Range(tags)

\* Variant: any answer that starts with y is accepted.
Confirmed_prefix(line) == Len(line) > 0 /\ lower(line)[1] = "y"

\* line 269: the answer lets the run proceed
Confirmed(line) == lower(line) = <<"y">>

\* Variant: main does not look at what gh_create_issue returned.
IssueMissing_never(i) == FALSE

\* line 277
IssueMissing(i) == i = None

\* gh_issue.html_url of issue number n
html_url(n) == <<gh_issues[n].repo, n>>

\* Variant: the comment carries the API url of the issue, not its html_url.
CrossLink_api(n) == <<"api.github.com", n>>

\* line 155: the link the Launchpad comment carries
CrossLink(n) == html_url(n)

\* Variant: the tag list is left as it was.
AddRelocTag_none(tags) == tags

\* line 157: lp_bug.tags += [RELOC_TAG]
AddRelocTag(tags) == tags \o <<RELOC_TAG>>

\* Variant: a failure of newMessage is swallowed and lp_update_bug goes on.
Handler_swallow(at) ==
    IF at = "bootstrap" THEN "Exited"
    ELSE IF at = "lp_new_message" THEN "lp_add_tag" ELSE "Crashed"

\* Where control goes when the statement at `at` raises: the try block of
\* lines 209-220 turns any exception into sys.exit(); nothing else in main
\* catches anything.
Handler(at) == IF at = "bootstrap" THEN "Exited" ELSE "Crashed"

-----------------------------------------------------------------------------
(* State *)

NoRepo == ""
NoBug == [id |-> 0, title |-> <<>>, description |-> <<>>, owner |-> "",
          importance |-> "", tags |-> <<>>]
NoArgs == [lp_bug_id |-> 0, github_token |-> "None", github_assignee |-> "None",
           github_repo |-> GH_DEFAULT_REPO, do_not_assign |-> FALSE,
           commit_changes |-> FALSE, i_am_sure |-> FALSE]
NoCalls == [a \in APIs |-> 0]

Called(a) == calls' = [calls EXCEPT ![a] = @ + 1]
Printed(m) == log' = log \cup {m}

Init ==
    /\ pc = "idle"
    /\ runs = 0
    /\ before = [tags |-> <<>>, messages |-> <<>>, issues |-> <<>>]
    /\ argv = NoArgs
    /\ args = NoArgs
    /\ global_commit_changes = FALSE
    /\ global_github_repo_name = NoRepo
    /\ gh_user_details = <<>>
    /\ gh = ""
    /\ lp_bug = NoBug
    /\ proceed = <<>>
    /\ gh_issue = None
    /\ main_gh_issue = Unbound
    /\ \E b \in Bugs, t \in InitialTags :
          lp_remote = [id |-> b.id, title |-> b.title,
                       description |-> b.description, owner |-> b.owner,
                       importance |-> b.importance, tags |-> t,
                       messages |-> <<>>]
    /\ gh_issues = <<>>
    /\ calls = NoCalls
    /\ log = {}
    /\ exc = ""

\* An exception leaves everything but the position as it is.
Raise(at, e) ==
    /\ pc' = Handler(at)
    /\ exc' = e

-----------------------------------------------------------------------------
(* main(), lines 190-283 *)

\* lines 195-205: a new process; parse the command line
Invoke ==
    /\ pc \in {"idle"} \cup Terminal
    /\ runs < MaxRuns
    /\ runs' = runs + 1
    /\ before' = [tags |-> lp_remote.tags, messages |-> lp_remote.messages,
                  issues |-> gh_issues]
    /\ \E id \in {lp_remote.id} \cup UnknownBugIds, tok \in Tokens, asg \in Assignees,
          repo \in Repos, dna \in BOOLEAN, commit \in BOOLEAN, sure \in BOOLEAN :
          /\ argv' = [lp_bug_id |-> id, github_token |-> tok,
                      github_assignee |-> asg, github_repo |-> repo,
                      do_not_assign |-> dna, commit_changes |-> commit,
                      i_am_sure |-> sure]
          /\ args' = argv'
          /\ global_commit_changes' = commit
    /\ global_github_repo_name' = NoRepo
    /\ gh_user_details' = <<>>
    /\ gh' = ""
    /\ lp_bug' = NoBug
    /\ proceed' = <<>>
    /\ gh_issue' = None
    /\ main_gh_issue' = Unbound
    /\ calls' = NoCalls
    /\ log' = {}
    /\ exc' = ""
    /\ pc' = "bootstrap"
    /\ UNCHANGED <<lp_remote, gh_issues>>

\* lines 207-220: resolve the token and the assignee
Bootstrap ==
    /\ pc = "bootstrap"
    /\ IF args.github_token = "None"
       THEN /\ Called("gh_cli")
            /\ \/ \* gh exits non-zero, or its output lacks a line (lines 99-106)
                  /\ Raise("bootstrap", "Exception")
                  /\ Printed("Failed to get GitHub token from gh CLI")
                  /\ UNCHANGED <<args, gh_user_details>>
               \/ \E account \in CliAccounts :
                     /\ IF args.github_assignee = "None"
                        THEN /\ args' = [args EXCEPT !.github_token = CliToken,
                                                     !.github_assignee = account]
                             /\ gh_user_details' = <<CliToken, account>>
                        ELSE /\ args' = [args EXCEPT !.github_token = CliToken]
                             /\ gh_user_details' = <<CliToken, args.github_assignee>>
                     /\ pc' = "configure"
                     /\ UNCHANGED <<log, exc>>
       ELSE /\ pc' = "configure"
            /\ UNCHANGED <<args, gh_user_details, calls, log, exc>>
    /\ UNCHANGED <<runs, before, argv, global_commit_changes, global_github_repo_name,
                   gh, lp_bug, proceed, gh_issue, main_gh_issue, lp_remote,
                   gh_issues>>

\* lines 222-241: print the configuration; the missing-assignee guard
Configure ==
    /\ pc = "configure"
    /\ global_github_repo_name' = args.github_repo
    /\ IF AssigneeMissing(args)
       THEN /\ Printed("Error: GitHub assignee is required")
            /\ pc' = "Exited"
       ELSE /\ pc' = "lp_login"
            /\ UNCHANGED log
    /\ UNCHANGED <<runs, before, argv, args, global_commit_changes, gh_user_details, gh,
                   lp_bug, proceed, gh_issue, main_gh_issue, lp_remote,
                   gh_issues, calls, exc>>

\* line 247
LpLogin ==
    /\ pc = "lp_login"
    /\ Called("lp_login")
    /\ \/ Raise("lp_login", "RemoteError")
       \/ pc' = "gh_login" /\ UNCHANGED exc
    /\ UNCHANGED <<runs, before, argv, args, global_commit_changes,
                   global_github_repo_name, gh_user_details, gh, lp_bug,
                   proceed, gh_issue, main_gh_issue, lp_remote, gh_issues, log>>

\* line 248: gh_login(gh_user_details); the name is bound only by lines 211
\* and 217
GhLogin ==
    /\ pc = "gh_login"
    /\ IF gh_user_details = <<>>
       THEN /\ Raise("gh_login", "UnboundLocalError")
            /\ UNCHANGED gh
       ELSE /\ gh' = gh_user_details[1]
            /\ pc' = "fetch"
            /\ UNCHANGED exc
    /\ UNCHANGED <<runs, before, argv, args, global_commit_changes,
                   global_github_repo_name, gh_user_details, lp_bug, proceed,
                   gh_issue, main_gh_issue, lp_remote, gh_issues, calls, log>>

\* lines 252-254: lp.bugs[args.lp_bug_id]
FetchBug ==
    /\ pc = "fetch"
    /\ IF args.lp_bug_id = lp_remote.id
       THEN /\ lp_bug' = [id |-> lp_remote.id, title |-> lp_remote.title,
                          description |-> lp_remote.description,
                          owner |-> lp_remote.owner,
                          importance |-> lp_remote.importance,
                          tags |-> lp_remote.tags]
            /\ pc' = "reloc_guard"
            /\ UNCHANGED exc
       ELSE /\ Raise("fetch", "KeyError")
            /\ UNCHANGED lp_bug
    /\ UNCHANGED <<runs, before, argv, args, global_commit_changes,
                   global_github_repo_name, gh_user_details, gh, proceed,
                   gh_issue, main_gh_issue, lp_remote, gh_issues, calls, log>>

\* lines 256-264
RelocGuard ==
    /\ pc = "reloc_guard"
    /\ IF AlreadyRelocated(lp_bug.tags)
       THEN /\ Printed("Bug was already relocated to GitHub")
            /\ pc' = "Exited"
       ELSE /\ pc' = "confirm"
            /\ UNCHANGED log
    /\ UNCHANGED <<runs, before, argv, args, global_commit_changes,
                   global_github_repo_name, gh_user_details, gh, lp_bug,
                   proceed, gh_issue, main_gh_issue, lp_remote, gh_issues,
                   calls, exc>>

\* lines 266-273
ConfirmGate ==
    /\ pc = "confirm"
    /\ IF args.i_am_sure
       THEN /\ pc' = "gh_get_repo"
            /\ UNCHANGED <<proceed, calls, log, exc>>
       ELSE /\ Called("input")
            /\ \/ \* end of input
                  /\ Raise("confirm", "EOFError")
                  /\ UNCHANGED <<proceed, log>>
               \/ \E line \in InputLines :
                     /\ proceed' = line
                     /\ IF Confirmed(line)
                        THEN pc' = "gh_get_repo" /\ UNCHANGED log
                        ELSE pc' = "Exited" /\ Printed("User opted out.")
                     /\ UNCHANGED exc
    /\ UNCHANGED <<runs, before, argv, args, global_commit_changes,
                   global_github_repo_name, gh_user_details, gh, lp_bug,
                   gh_issue, main_gh_issue, lp_remote, gh_issues>>

-----------------------------------------------------------------------------
(* gh_create_issue(), lines 118-149 *)

\* the issue numbered n, changed by f
WithIssue(n, field, value) ==
    gh_issues' = [gh_issues EXCEPT ![n] = [@ EXCEPT ![field] = value]]

\* lines 119-125: enter the function and load the repository
GhGetRepo ==
    /\ pc = "gh_get_repo"
    /\ calls' = [calls EXCEPT !["gh_create_issue"] = @ + 1, !["get_repo"] = @ + 1]
    /\ gh_issue' = None
    /\ \/ Raise("gh_get_repo", "RemoteError")
       \/ pc' = "gh_create" /\ UNCHANGED exc
    /\ UNCHANGED <<runs, before, argv, args, global_commit_changes,
                   global_github_repo_name, gh_user_details, gh, lp_bug,
                   proceed, main_gh_issue, lp_remote, gh_issues, log>>

\* lines 128-133
GhCreateIssue ==
    /\ pc = "gh_create"
    /\ IF Committing
       THEN /\ Called("create_issue")
            /\ \/ /\ Raise("gh_create", "RemoteError")
                  /\ UNCHANGED <<gh_issues, gh_issue, log>>
               \/ /\ gh_issues' = Append(gh_issues,
                        [repo |-> global_github_repo_name,
                         title |-> IssueTitle(lp_bug),
                         body |-> IssueBody(lp_bug),
                         comments |-> <<>>, labels |-> {}, assignees |-> {}])
                  /\ gh_issue' = Len(gh_issues) + 1
                  /\ Printed("GH: Created new issue")
                  /\ pc' = "gh_comment"
                  /\ UNCHANGED exc
       ELSE /\ Printed("GH: Dry-run: Would create new issue")
            /\ pc' = "gh_comment"
            /\ UNCHANGED <<gh_issues, gh_issue, calls, exc>>
    /\ UNCHANGED <<runs, before, argv, args, global_commit_changes,
                   global_github_repo_name, gh_user_details, gh, lp_bug,
                   proceed, main_gh_issue, lp_remote>>

\* lines 135-138
GhCreateComment ==
    /\ pc = "gh_comment"
    /\ IF Committing
       THEN IF gh_issue = None
            THEN /\ Raise("gh_comment", "AttributeError")
                 /\ UNCHANGED <<gh_issues, calls, log>>
            ELSE /\ Called("create_comment")
                 /\ \/ /\ Raise("gh_comment", "RemoteError")
                       /\ UNCHANGED <<gh_issues, log>>
                    \/ /\ WithIssue(gh_issue, "comments",
                             Append(gh_issues[gh_issue].comments,
                                    [by |-> args.github_assignee,
                                     lp_bug |-> lp_bug.id,
                                     owner |-> lp_bug.owner,
                                     importance |-> lp_bug.importance]))
                       /\ Printed("GH: Added Launchpad bug link to issue")
                       /\ pc' = "gh_label_triage"
                       /\ UNCHANGED exc
       ELSE /\ Printed("GH: Added Launchpad bug link to issue")
            /\ pc' = "gh_label_triage"
            /\ UNCHANGED <<gh_issues, calls, exc>>
    /\ UNCHANGED <<runs, before, argv, args, global_commit_changes,
                   global_github_repo_name, gh_user_details, gh, lp_bug,
                   proceed, gh_issue, main_gh_issue, lp_remote>>

\* the label step at position `at`, adding `label`, going on to `next`
AddLabel(at, label, next) ==
    /\ pc = at
    /\ IF Committing
       THEN IF gh_issue = None
            THEN /\ Raise(at, "AttributeError")
                 /\ UNCHANGED <<gh_issues, calls>>
            ELSE /\ Called("add_to_labels")
                 /\ \/ /\ Raise(at, "RemoteError")
                       /\ UNCHANGED gh_issues
                    \/ /\ WithIssue(gh_issue, "labels",
                             gh_issues[gh_issue].labels \cup {label})
                       /\ pc' = next
                       /\ UNCHANGED exc
       ELSE /\ pc' = next
            /\ UNCHANGED <<gh_issues, calls, exc>>
    /\ UNCHANGED <<runs, before, argv, args, global_commit_changes,
                   global_github_repo_name, gh_user_details, gh, lp_bug,
                   proceed, gh_issue, main_gh_issue, lp_remote, log>>

\* line 141
GhAddTriageLabel == AddLabel("gh_label_triage", GH_TRIAGE_LABEL, "gh_label_import")

\* line 142
GhAddImportLabel == AddLabel("gh_label_import", GH_IMPORT_LABEL, "gh_assign")

\* lines 144-147
GhAssign ==
    /\ pc = "gh_assign"
    /\ IF ~args.do_not_assign
       THEN IF Committing
            THEN IF gh_issue = None
                 THEN /\ Raise("gh_assign", "AttributeError")
                      /\ UNCHANGED <<gh_issues, calls, log>>
                 ELSE /\ Called("edit")
                      /\ \/ /\ Raise("gh_assign", "RemoteError")
                            /\ UNCHANGED <<gh_issues, log>>
                         \/ /\ WithIssue(gh_issue, "assignees",
                                         {args.github_assignee})
                            /\ Printed("GH: Assigned issue")
                            /\ pc' = "gh_return"
                            /\ UNCHANGED exc
            ELSE /\ Printed("GH: Assigned issue")
                 /\ pc' = "gh_return"
                 /\ UNCHANGED <<gh_issues, calls, exc>>
       ELSE /\ pc' = "gh_return"
            /\ UNCHANGED <<gh_issues, calls, log, exc>>
    /\ UNCHANGED <<runs, before, argv, args, global_commit_changes,
                   global_github_repo_name, gh_user_details, gh, lp_bug,
                   proceed, gh_issue, main_gh_issue, lp_remote>>

\* line 149 and lines 276-279: return to main; main stops if it got no issue
GhReturn ==
    /\ pc = "gh_return"
    /\ main_gh_issue' = gh_issue
    /\ IF IssueMissing(gh_issue)
       THEN /\ Printed("GH: Issue was NOT created. Exiting.")
            /\ pc' = "Exited"
       ELSE /\ pc' = "lp_new_message"
            /\ UNCHANGED log
    /\ UNCHANGED <<runs, before, argv, args, global_commit_changes,
                   global_github_repo_name, gh_user_details, gh, lp_bug,
                   proceed, gh_issue, lp_remote, gh_issues, calls, exc>>

-----------------------------------------------------------------------------
(* lp_update_bug(), lines 153-171 *)

\* lines 155-156: the message is formatted from gh_issue.html_url, then posted
LpNewMessage ==
    /\ pc = "lp_new_message"
    /\ IF main_gh_issue = None
       THEN /\ calls' = [calls EXCEPT !["lp_update_bug"] = @ + 1]
            /\ Raise("lp_new_message", "AttributeError")
            /\ UNCHANGED <<lp_remote, log>>
       ELSE /\ calls' = [calls EXCEPT !["lp_update_bug"] = @ + 1,
                                      !["newMessage"] = @ + 1]
            /\ \/ /\ Raise("lp_new_message", "RemoteError")
                  /\ UNCHANGED <<lp_remote, log>>
               \/ /\ lp_remote' = [lp_remote EXCEPT !.messages =
                        Append(@, [link |-> CrossLink(main_gh_issue)])]
                  /\ Printed("LP: Added GitHub issue link")
                  /\ pc' = "lp_add_tag"
                  /\ UNCHANGED exc
    /\ UNCHANGED <<runs, before, argv, args, global_commit_changes,
                   global_github_repo_name, gh_user_details, gh, lp_bug,
                   proceed, gh_issue, main_gh_issue, gh_issues>>

\* lines 157-158: the tag is added to the local copy
LpAddTag ==
    /\ pc = "lp_add_tag"
    /\ lp_bug' = [lp_bug EXCEPT !.tags = AddRelocTag(@)]
    /\ Printed("LP: Added tag")
    /\ pc' = "lp_save"
    /\ UNCHANGED <<runs, before, argv, args, global_commit_changes,
                   global_github_repo_name, gh_user_details, gh, proceed,
                   gh_issue, main_gh_issue, lp_remote, gh_issues, calls, exc>>

\* lines 167-171
LpSave ==
    /\ pc = "lp_save"
    /\ IF Committing
       THEN /\ Called("lp_save")
            /\ \/ /\ Raise("lp_save", "RemoteError")
                  /\ UNCHANGED <<lp_remote, log>>
               \/ /\ lp_remote' = [lp_remote EXCEPT !.tags = lp_bug.tags]
                  /\ Printed("LP: Saved bug")
                  /\ pc' = "print_done"
                  /\ UNCHANGED exc
       ELSE /\ Printed("LP: Bug was NOT saved")
            /\ pc' = "print_done"
            /\ UNCHANGED <<lp_remote, calls, exc>>
    /\ UNCHANGED <<runs, before, argv, args, global_commit_changes,
                   global_github_repo_name, gh_user_details, gh, lp_bug,
                   proceed, gh_issue, main_gh_issue, gh_issues>>

\* line 283
PrintDone ==
    /\ pc = "print_done"
    /\ Printed("Done!")
    /\ pc' = "Done"
    /\ UNCHANGED <<runs, before, argv, args, global_commit_changes,
                   global_github_repo_name, gh_user_details, gh, lp_bug,
                   proceed, gh_issue, main_gh_issue, lp_remote, gh_issues,
                   calls, exc>>

-----------------------------------------------------------------------------

Next ==
    \/ Invoke
    \/ Bootstrap
    \/ Configure
    \/ LpLogin
    \/ GhLogin
    \/ FetchBug
    \/ RelocGuard
    \/ ConfirmGate
    \/ GhGetRepo
    \/ GhCreateIssue
    \/ GhCreateComment
    \/ GhAddTriageLabel
    \/ GhAddImportLabel
    \/ GhAssign
    \/ GhReturn
    \/ LpNewMessage
    \/ LpAddTag
    \/ LpSave
    \/ PrintDone

Spec == Init /\ [][Next]_vars

TypeOK ==
    /\ pc \in {"idle", "bootstrap", "configure", "lp_login", "gh_login",
               "fetch", "reloc_guard", "confirm", "gh_get_repo", "gh_create",
               "gh_comment", "gh_label_triage", "gh_label_import", "gh_assign",
               "gh_return", "lp_new_message", "lp_add_tag", "lp_save",
               "print_done"} \cup Terminal
    /\ runs \in 0..MaxRuns
    /\ gh_issue \in 0..Len(gh_issues)
    /\ main_gh_issue \in (0 - 1)..Len(gh_issues)
    /\ Len(gh_issues) <= runs

-----------------------------------------------------------------------------
(* Vocabulary of the properties *)

Started == runs > 0
DryRun == ~argv.commit_changes
NoMutation == \A a \in MutatingAPIs : calls[a] = 0
RemoteUntouched ==
    /\ lp_remote.tags = before.tags
    /\ lp_remote.messages = before.messages
    /\ gh_issues = before.issues
\* the run got past the confirmation gate of lines 266-273
PastGate == pc = "gh_get_repo" \/ calls["gh_create_issue"] > 0
\* main holds the bug
Fetched == lp_bug.id # 0
\* the issue this run created, once gh_create_issue has it
IssueCreated ==
    /\ calls["create_issue"] = 1
    /\ Len(gh_issues) = Len(before.issues) + 1
    /\ SubSeq(gh_issues, 1, Len(before.issues)) = before.issues
    /\ gh_issue = Len(gh_issues)
YLines == { <<"y">>, <<"Y">> }

-----------------------------------------------------------------------------
(* C1 *)

\* C1: in a run without --commit_changes no mutating call of either tracker
\* is ever made (create_issue, create_comment, add_to_labels, edit,
\* newMessage, lp_save), no issue is created, and the Launchpad bug's tags
\* and messages are what they were when the run began, however far it gets.
C1_DryRunSafety ==
    (Started /\ DryRun) => (NoMutation /\ RemoteUntouched)

\* a dry run that went through the whole of gh_create_issue, assignment
\* included, and ended
C1_Witness ==
    /\ Started /\ DryRun
    /\ pc = "Exited"
    /\ "GH: Issue was NOT created. Exiting." \in log
    /\ "GH: Assigned issue" \in log

-----------------------------------------------------------------------------
(* C2 *)

-----------------------------------------------------------------------------
(* C3 *)

\* C3: when the fetched bug already carries RELOC_TAG the run ends at the
\* guard that follows the fetch: the prompt is never read, gh_create_issue is
\* never entered, no mutating call is made and both trackers are left as they
\* were, whatever --commit_changes, --i_am_sure and --do_not_assign are.
C3_IdempotencyGuard ==
    (Started /\ Fetched /\ RELOC_TAG \in Range(before.tags)) =>
        /\ pc \in {"reloc_guard", "Exited"}
        /\ calls["input"] = 0
        /\ calls["gh_create_issue"] = 0
        /\ calls["lp_update_bug"] = 0
        /\ NoMutation
        /\ RemoteUntouched

\* a second invocation, committed and pre-confirmed, on a bug that the first
\* invocation migrated
C3_Witness ==
    /\ runs = 2
    /\ pc = "Exited"
    /\ "Bug was already relocated to GitHub" \in log
    /\ argv.commit_changes /\ argv.i_am_sure
    /\ Len(gh_issues) = 1
    /\ Len(lp_remote.messages) = 1

-----------------------------------------------------------------------------
(* C4 *)

\* C4: without --i_am_sure one line is read before any mutating call, and the
\* run goes on to gh_create_issue only if that line is y or Y; after any other
\* line (or end of input) the run has ended and nothing was mutated, also
\* under --commit_changes.  With --i_am_sure nothing is read.
C4_ConfirmationGate ==
    Started =>
        /\ calls["input"] <= 1
        /\ argv.i_am_sure => calls["input"] = 0
        /\ (~argv.i_am_sure /\ (PastGate \/ ~NoMutation)) =>
              (calls["input"] = 1 /\ proceed \in YLines)
        /\ (~argv.i_am_sure /\ calls["input"] = 1 /\ proceed \notin YLines) =>
              /\ pc = "Exited" \/ (pc = "Crashed" /\ exc = "EOFError")
              /\ calls["gh_create_issue"] = 0
              /\ NoMutation
              /\ RemoteUntouched

\* the operator typed yes in a committed run, and the run stopped
C4_Witness ==
    /\ argv.commit_changes
    /\ ~argv.i_am_sure
    /\ proceed = <<"y", "e", "s">>
    /\ pc = "Exited"
    /\ "User opted out." \in log

-----------------------------------------------------------------------------
(* C5 *)

\* the guard of line 234 stopped the run
GuardFired == "Error: GitHub assignee is required" \in log

\* C5: (a) once the credentials are resolved, a run without --do_not_assign
\* whose assignee is still "None" ends at the guard, before lp_login, the
\* fetch and any mutating call; (b) when the token came from the gh CLI and
\* no --github_assignee was given, the assignee is the CLI account name and
\* the guard does not fire.
C5_MissingAssigneeGuard ==
    Started =>
        /\ (pc \notin {"bootstrap"} /\ ~args.do_not_assign
               /\ args.github_assignee = "None") =>
              /\ pc \in {"configure", "Exited"}
              /\ calls["lp_login"] = 0
              /\ ~Fetched
              /\ NoMutation
              /\ RemoteUntouched
        /\ (argv.github_token = "None" /\ argv.github_assignee = "None"
               /\ gh_user_details # <<>>) =>
              /\ args.github_assignee = gh_user_details[2]
              /\ ~GuardFired

-----------------------------------------------------------------------------
(* C6 *)

\* The phase of the run, in the words of the forward pass
\* Idle, SourceFetched, DestinationCreated, SourceUpdated, Done, Aborted.
Phase ==
    CASE pc \in {"idle", "bootstrap", "configure", "lp_login", "gh_login",
                 "fetch"} -> "Idle"
      [] pc \in {"reloc_guard", "confirm", "gh_get_repo", "gh_create"} ->
            "SourceFetched"
      [] pc \in {"gh_comment", "gh_label_triage", "gh_label_import",
                 "gh_assign", "gh_return", "lp_new_message", "lp_add_tag",
                 "lp_save"} ->
            IF gh_issue = None THEN "SourceFetched" ELSE "DestinationCreated"
      [] pc = "print_done" -> "SourceUpdated"
      [] pc = "Done" -> "Done"
      [] pc \in {"Exited", "Crashed"} -> "Aborted"

\* the source record shows a trace of this run: a message posted, or the tag
\* added to main's copy or to the stored bug
SourceTouched ==
    \/ calls["newMessage"] > 0
    \/ calls["lp_save"] > 0
    \/ lp_remote.messages # before.messages
    \/ lp_remote.tags # before.tags
    \/ (Fetched /\ lp_bug.tags # before.tags)

\* the destination issue exists before the source is touched, and the message
\* posted carries the link of that issue
Ordering ==
    Started =>
        /\ SourceTouched =>
              /\ IssueCreated
              /\ main_gh_issue = gh_issue
        /\ lp_remote.messages # before.messages =>
              lp_remote.messages =
                 Append(before.messages,
                        [link |-> <<gh_issues[main_gh_issue].repo, main_gh_issue>>])

ForwardPass ==
    { <<"Idle", "SourceFetched">>, <<"SourceFetched", "Aborted">>,
      <<"SourceFetched", "DestinationCreated">>,
      <<"DestinationCreated", "SourceUpdated">>, <<"SourceUpdated", "Done">> }

\* the ways a run stops that the forward pass leaves out: before the fetch
\* (gh CLI failure, missing assignee, a failing login, an unknown bug id) and
\* after the issue was created (a remote call raises)
EarlyAndLateAborts ==
    { <<"Idle", "Aborted">>, <<"DestinationCreated", "Aborted">> }

\* within one run the phase changes only along `edges`
FollowsOnly(edges) ==
    (runs' = runs /\ Phase' # Phase) => <<Phase, Phase'>> \in edges

\* C6 as stated: the ordering holds and a run moves only along
\* Idle -> SourceFetched -> (Aborted | DestinationCreated -> SourceUpdated ->
\* Done).
C6_Original == []Ordering /\ [][FollowsOnly(ForwardPass)]_vars

\* C6, amended: the ordering holds (no message, no tag on the source unless
\* this run created the issue, and the message carries that issue's link), and
\* a run moves only along the forward pass or, in addition, from Idle to
\* Aborted and from DestinationCreated to Aborted.
C6_OrderingAndPhases ==
    []Ordering /\ [][FollowsOnly(ForwardPass \cup EarlyAndLateAborts)]_vars

\* a finished migration: the message is on the bug and links the new issue
C6_Witness ==
    /\ pc = "Done"
    /\ Phase = "Done"
    /\ Len(lp_remote.messages) = Len(before.messages) + 1
    /\ lp_remote.messages[Len(lp_remote.messages)].link =
          <<GH_DEFAULT_REPO, Len(gh_issues)>>

-----------------------------------------------------------------------------
(* C7 *)

\* C7: with --github_token on the command line the gh CLI is not invoked, the
\* (token, account) pair is the command-line pair when the GitHub client is
\* built, the client is built from that token, and no run ends in gh_login.
C7_CommandLineToken ==
    (Started /\ argv.github_token # "None") =>
        /\ calls["gh_cli"] = 0
        /\ pc = "gh_login" =>
              gh_user_details = <<argv.github_token, argv.github_assignee>>
        /\ exc # "UnboundLocalError"
        /\ Fetched => gh = argv.github_token

-----------------------------------------------------------------------------
(* C8 *)

\* a call of lp_update_bug raised: newMessage or lp_save
SourceUpdateFailed == exc = "RemoteError" /\ calls["newMessage"] = 1

\* the issue this run created is still there, complete
IssueLeftInPlace ==
    /\ Len(gh_issues) = Len(before.issues) + 1
    /\ Len(gh_issues[Len(gh_issues)].comments) = 1
    /\ gh_issues[Len(gh_issues)].labels = {GH_TRIAGE_LABEL, GH_IMPORT_LABEL}

\* C8 as stated: after a failure of newMessage or lp_save in a committed run
\* the issue exists and the source has neither the message nor the tag.
C8_Original ==
    (Started /\ argv.commit_changes /\ SourceUpdateFailed) =>
        /\ pc = "Crashed"
        /\ IssueLeftInPlace
        /\ lp_remote.messages = before.messages
        /\ lp_remote.tags = before.tags

\* C8, amended: after such a failure the run has ended, the issue exists and
\* is left as created, no call was made twice, and the stored tags are
\* unchanged; the source has no new message if newMessage was the call that
\* failed, and has the one cross-link message if lp_save was.
C8_PartialFailure ==
    (Started /\ argv.commit_changes /\ SourceUpdateFailed) =>
        /\ pc = "Crashed"
        /\ IssueLeftInPlace
        /\ \A a \in {"create_issue", "newMessage", "lp_save"} : calls[a] <= 1
        /\ lp_remote.tags = before.tags
        /\ calls["lp_save"] = 0 => lp_remote.messages = before.messages
        /\ calls["lp_save"] = 1 =>
              lp_remote.messages =
                 Append(before.messages,
                        [link |-> <<GH_DEFAULT_REPO, Len(gh_issues)>>])

\* lp_save raised after the message had been posted
C8_Witness ==
    /\ argv.commit_changes
    /\ pc = "Crashed"
    /\ exc = "RemoteError"
    /\ calls["lp_save"] = 1
    /\ Len(lp_remote.messages) = Len(before.messages) + 1

-----------------------------------------------------------------------------
(* C9 *)

IsDigit(c) == c \in {"0", "1", "2", "3", "4", "5", "6", "7", "8", "9"}
DigitValue(c) ==
    CASE c = "0" -> 0 [] c = "1" -> 1 [] c = "2" -> 2 [] c = "3" -> 3
      [] c = "4" -> 4 [] c = "5" -> 5 [] c = "6" -> 6 [] c = "7" -> 7
      [] c = "8" -> 8 [] c = "9" -> 9

RECURSIVE Value(_)
Value(ds) ==
    IF ds = <<>> THEN 0
    ELSE 10 * Value(SubSeq(ds, 1, Len(ds) - 1)) + DigitValue(ds[Len(ds)])

\* ds is the decimal numeral of n
IsDecimalOf(ds, n) ==
    /\ Len(ds) >= 1
    /\ \A i \in 1..Len(ds) : IsDigit(ds[i])
    /\ Len(ds) > 1 => ds[1] # "0"
    /\ Value(ds) = n

\* title is LP: followed by the numeral of n, one space, and t
IsTitleFor(title, n, t) ==
    LET k == Len(title) - Len(t) - 4 IN
    /\ k >= 1
    /\ SubSeq(title, 1, 3) = <<"L", "P", ":">>
    /\ IsDecimalOf(SubSeq(title, 4, 3 + k), n)
    /\ title[4 + k] = " "
    /\ SubSeq(title, 5 + k, Len(title)) = t

TitleLP123 ==
    <<"L","P",":","1","2","3"," ","C","r","a","s","h"," ","o","n"," ",
      "s","a","v","e">>

-----------------------------------------------------------------------------
(* C10 *)

\* C10 as stated: a dry run in which gh_create_issue returned no issue goes
\* on into lp_update_bug.
C10_Original ==
    (Started /\ DryRun /\ main_gh_issue = None /\ pc \in Terminal) =>
        calls["lp_update_bug"] = 1

\* C10, amended: a dry run that got past the gate and through
\* gh_create_issue gets no issue back, and main then prints that the issue
\* was not created and exits: lp_update_bug is never entered, html_url is
\* never read and "Bug was NOT saved" is never printed.
C10_DryRunStopsBeforeSourceUpdate ==
    (Started /\ DryRun) =>
        /\ calls["lp_update_bug"] = 0
        /\ "LP: Bug was NOT saved" \notin log
        /\ exc # "AttributeError"
        /\ pc \notin {"lp_new_message", "lp_add_tag", "lp_save", "print_done",
                      "Done"}
        /\ (PastGate /\ pc \in Terminal /\ exc = "") =>
              /\ main_gh_issue = None
              /\ pc = "Exited"
              /\ "GH: Issue was NOT created. Exiting." \in log

\* a dry run, confirmed with y, has ended after gh_create_issue returned None
C10_Witness ==
    /\ DryRun
    /\ ~argv.i_am_sure /\ proceed = <<"y">>
    /\ main_gh_issue = None
    /\ pc = "Exited"
    /\ calls["gh_create_issue"] = 1

====
